---- MODULE Spec2Model ----
(***************************************************************************)
(* The dissipate backend: bearer tokens (backend/src/auth.rs), the         *)
(* identity middleware (backend/src/middleware.rs), the extractor the      *)
(* handlers read the identity with and the router (backend/src/main.rs),   *)
(* credentials (backend/src/utils.rs), the tables (backend/src/db.rs),     *)
(* the handlers (backend/src/handlers.rs, backend/src/exports.rs) and the  *)
(* start of the server (main of backend/src/main.rs).                      *)
(*                                                                         *)
(* Text is a sequence of elements.  An element is one character, or one    *)
(* run of base64url characters standing for the bytes it decodes to (a     *)
(* JOSE header, a claims object, an HMAC tag, or bytes that are no JSON).  *)
(* A run never holds '.', ' ' or a tab.  All elements are records of one   *)
(* shape, so that any two texts can be compared.                           *)
(***************************************************************************)
EXTENDS Integers, Sequences, FiniteSets, TLC

VARIABLES
    now,      \* Utc::now().timestamp(): seconds since the epoch
    ticks,    \* how many times the clock has advanced (bounds the run)
    issued,   \* the calls of create_token answered so far, each with its token
    input,    \* the header value handed to extract_token_from_header (SpecExtract)
    last,     \* the call that returned last, with what it returned
    rng,      \* how many values the operating system's generator has handed out
    hashes,   \* the calls of hash_password answered so far, in order (SpecHash)
    verdicts, \* the calls of validate_token answered so far (SpecReplay)
    inflight, \* the requests being served, each with its own context (SpecConcurrent)
    users,    \* the rows of table users
    messages, \* the rows of table messages
    boot      \* the server process from the start of main on (SpecBoot)

vars == <<now, ticks, issued, input, last, rng, hashes, verdicts, inflight, users, messages,
         boot>>

\* the state outside the token layer, and its value where nothing uses it
store == <<rng, hashes, verdicts, inflight, users, messages, boot>>

StoreInit ==
    /\ rng = 0
    /\ hashes = <<>>
    /\ verdicts = {}
    /\ inflight = <<>>
    /\ users = {}
    /\ messages = {}
    /\ boot = [pc |-> "none"]

---------------------------------------------------------------------------
\* Bounds of the model.

MaxTicks == 3

MaxTokens == 1

MaxChunks == 3

MaxHashes == 2

MaxDraws == 3

MaxAdvances == 1

MaxHttpDraws == 4

MaxVerdicts == 2

MaxInFlight == 2

---------------------------------------------------------------------------
\* Text.

Elem(kind, ch, alg, user_id, exp, key, msg) ==
    [kind |-> kind, ch |-> ch, alg |-> alg, user_id |-> user_id,
     exp |-> exp, key |-> key, msg |-> msg]

Ch(c) == Elem("char", c, "", "", 0, "", <<>>)

Chars(s) == [i \in DOMAIN s |-> Ch(s[i])]

Dot == Ch(".")

Space == Ch(" ")

Tab == Ch("\t")

\* char::is_whitespace, on the characters a header value can hold
IsWhitespace(e) == e.kind = "char" /\ e.ch \in {" ", "\t"}

\* str::starts_with
StartsWith(s, p) == Len(s) >= Len(p) /\ SubSeq(s, 1, Len(p)) = p

RECURSIVE TrimStartMatches(_, _)
\* str::trim_start_matches: the prefix removed as often as it repeats
TrimStartMatches(s, p) ==
    IF Len(p) > 0 /\ StartsWith(s, p)
    THEN TrimStartMatches(SubSeq(s, Len(p) + 1, Len(s)), p)
    ELSE s

RECURSIVE TrimStart(_)
TrimStart(s) ==
    IF Len(s) > 0 /\ IsWhitespace(s[1]) THEN TrimStart(Tail(s)) ELSE s

RECURSIVE TrimEnd(_)
TrimEnd(s) ==
    IF Len(s) > 0 /\ IsWhitespace(s[Len(s)])
    THEN TrimEnd(SubSeq(s, 1, Len(s) - 1))
    ELSE s

\* str::trim
Trim(s) == TrimEnd(TrimStart(s))

---------------------------------------------------------------------------
\* auth.rs: extract_token_from_header

BearerPrefix == Chars(<<"B", "e", "a", "r", "e", "r", " ">>)

ExtractOk(token) == [kind |-> "Ok", token |-> token]

ExtractErr == [kind |-> "InvalidAuthHeader", token |-> <<>>]

extract_token_from_header(auth_header) ==
    IF ~StartsWith(auth_header, BearerPrefix)
    THEN ExtractErr
    ELSE LET token == Trim(TrimStartMatches(auth_header, BearerPrefix))
         IN  IF Len(token) = 0 THEN ExtractErr ELSE ExtractOk(token)

---------------------------------------------------------------------------
\* Tokens: the compact serialization header.payload.signature that
\* jsonwebtoken::encode writes and jsonwebtoken::decode reads.
\* The crate is modelled by what its decode does with Validation::default()
\* (jsonwebtoken 8 and 9): split at the last two dots, deserialize the header,
\* check the algorithm, check the signature, deserialize the claims, compare
\* exp with the clock under a leeway of 60 seconds.  Its errors are displayed
\* as the Debug name of their kind, except those that wrap another error
\* ("JSON error: <serde message>", "Base64 error: <message>"); the serde
\* message for an unknown alg quotes the alg the header names.

TOKEN_EXPIRATION_DAYS == 15

\* chrono::Duration::days
SecondsPerDay == 24 * 60 * 60

\* Validation::default(): leeway, in seconds, granted past exp
Leeway == 60

\* Validation::default() = Validation::new(Algorithm::HS256)
DefaultValidation ==
    [leeway |-> Leeway, validate_exp |-> TRUE, validate_signature |-> TRUE,
     algorithms |-> {"HS256"}]

\* the variants of jsonwebtoken::Algorithm
KnownAlgorithms ==
    {"HS256", "HS384", "HS512", "ES256", "ES384", "RS256", "RS384", "RS512",
     "PS256", "PS384", "PS512", "EdDSA"}

\* base64url(JSON of Header { typ: "JWT", alg })
HeaderBlock(alg) == Elem("hdr", "", alg, "", 0, "", <<>>)

\* base64url(JSON of Claims { user_id, exp })
ClaimsBlock(user_id, exp) == Elem("pay", "", "", user_id, exp, "", <<>>)

\* base64url of bytes that are no JSON document
JunkBlock(name) == Elem("junk", name, "", "", 0, "", <<>>)

\* base64url(HMAC-SHA256(key, message)): equal tags only for equal key and message
SignBlock(key, message) == Elem("sig", "", "", "", 0, key, message)

\* jsonwebtoken::encode with Header::default()
encode(alg, claims, key) ==
    LET message == <<HeaderBlock(alg), Dot, ClaimsBlock(claims.user_id, claims.exp)>>
    IN  message \o <<Dot, SignBlock(key, message)>>

\* the mutant: the two arguments taken in the wrong order
create_token_Swapped(user_id, secret, t) ==
    encode("HS256",
           [user_id |-> secret, exp |-> t + TOKEN_EXPIRATION_DAYS * SecondsPerDay],
           user_id)

\* the mutant: the lifetime counted in hours, not in days
create_token_Hours(user_id, secret, t) ==
    encode("HS256",
           [user_id |-> user_id, exp |-> t + TOKEN_EXPIRATION_DAYS * 3600],
           secret)

create_token(user_id, secret, t) ==
    encode("HS256",
           [user_id |-> user_id, exp |-> t + TOKEN_EXPIRATION_DAYS * SecondsPerDay],
           secret)

\* index of the last '.' of s, 0 when there is none (rsplitn(2, '.'))
LastDot(s) ==
    LET dots == { i \in 1..Len(s) : s[i] = Dot }
    IN  IF dots = {} THEN 0 ELSE CHOOSE i \in dots : \A j \in dots : j <= i

IsBase64(seg) == \A i \in 1..Len(seg) : seg[i].kind # "char"

NoClaims == [user_id |-> "", exp |-> 0]

LibOk(claims) == [kind |-> "Ok", detail |-> "", claims |-> claims]

LibErr(kind, detail) == [kind |-> kind, detail |-> detail, claims |-> NoClaims]

\* Header::from_encoded: base64-decode, then deserialize the JSON
HeaderFromEncoded(seg) ==
    IF ~IsBase64(seg) THEN LibErr("Base64", "Invalid byte")
    ELSE IF Len(seg) # 1 \/ seg[1].kind # "hdr"
         THEN LibErr("Json", "expected value")
    ELSE IF seg[1].alg \notin KnownAlgorithms
         THEN LibErr("Json", seg[1].alg)   \* serde: unknown variant <alg>, expected one of ...
    ELSE [kind |-> "Ok", detail |-> seg[1].alg, claims |-> NoClaims]

\* the claims of a payload segment: base64-decode, then deserialize Claims
ClaimsFromEncoded(seg) ==
    IF ~IsBase64(seg) THEN LibErr("Base64", "Invalid byte")
    ELSE IF Len(seg) # 1 \/ seg[1].kind # "pay"
         THEN LibErr("Json", "expected value")
    ELSE LibOk([user_id |-> seg[1].user_id, exp |-> seg[1].exp])

\* jsonwebtoken::crypto::verify for HS256: sign again and compare
verify(signature, message, key) == signature = <<SignBlock(key, message)>>

\* the mutant: the comparison with the clock turned round
validate_Reversed(claims, validation, t) ==
    IF validation.validate_exp /\ claims.exp > t - validation.leeway
    THEN LibErr("ExpiredSignature", "")
    ELSE LibOk(claims)

\* jsonwebtoken::validation::validate: exp against the clock, with the leeway
validate(claims, validation, t) ==
    IF validation.validate_exp /\ claims.exp < t - validation.leeway
    THEN LibErr("ExpiredSignature", "")
    ELSE LibOk(claims)

\* jsonwebtoken::decode::<Claims>(token, key, validation) at time t
decode(token, key, validation, t) ==
    LET d1 == LastDot(token) IN
    IF d1 = 0 THEN LibErr("InvalidToken", "") ELSE
    LET signature == SubSeq(token, d1 + 1, Len(token))
        message   == SubSeq(token, 1, d1 - 1)
        d2        == LastDot(message)
    IN
    IF d2 = 0 THEN LibErr("InvalidToken", "") ELSE
    LET payload == SubSeq(message, d2 + 1, Len(message))
        header  == HeaderFromEncoded(SubSeq(message, 1, d2 - 1))
    IN
    IF header.kind # "Ok" THEN header
    ELSE IF validation.validate_signature /\ header.detail \notin validation.algorithms
         THEN LibErr("InvalidAlgorithm", "")
    ELSE IF validation.validate_signature /\ ~verify(signature, message, key)
         THEN LibErr("InvalidSignature", "")
    ELSE LET claims == ClaimsFromEncoded(payload)
         IN  IF claims.kind # "Ok" THEN claims
             ELSE validate(claims.claims, validation, t)

\* Display of jsonwebtoken::errors::Error, as the pieces it is written from
ErrorToString(e) ==
    CASE e.kind = "Json"   -> <<"JSON error: ", e.detail>>
      [] e.kind = "Base64" -> <<"Base64 error: ", e.detail>>
      [] OTHER             -> <<e.kind>>

\* str::contains, on the pieces
Contains(text, needle) == \E i \in 1..Len(text) : text[i] = needle

AuthOk(claims) == [kind |-> "Ok", claims |-> claims, message |-> <<>>]

AuthErr(kind, message) == [kind |-> kind, claims |-> NoClaims, message |-> message]

\* Ok(token_data.claims), or the closure of map_err on the error of decode
MapErr(r) ==
    IF r.kind = "Ok" THEN AuthOk(r.claims)
    ELSE IF Contains(ErrorToString(r), "ExpiredSignature")
         THEN AuthErr("TokenExpired", <<>>)
    ELSE AuthErr("InvalidToken", ErrorToString(r))

\* the mutant: the signature is not validated
validate_token_Insecure(token, secret, t) ==
    MapErr(decode(token, secret, [DefaultValidation EXCEPT !.validate_signature = FALSE], t))

validate_token(token, secret, t) == MapErr(decode(token, secret, DefaultValidation, t))

---------------------------------------------------------------------------
\* middleware.rs: auth_middleware, and main.rs: the AuthUser extractor the
\* protected handlers read the identity with.

\* StatusCode::UNAUTHORIZED as a response: the status, no body
Unauthorized ==
    [status |-> 401, body |-> [json |-> FALSE, error |-> ""],
     next_ran |-> FALSE, handler_ran |-> FALSE, identity |-> ""]

\* (status, ErrorResponse::new(message)).into_response(): {"error": message}
ErrorResponse(status, message) ==
    [status |-> status, body |-> [json |-> TRUE, error |-> message],
     next_ran |-> FALSE, handler_ran |-> FALSE, identity |-> ""]

\* handlers.rs: impl IntoResponse for AuthError
AuthErrorIntoResponse(kind) ==
    CASE kind = "TokenExpired"      -> ErrorResponse(401, "Token expired")
      [] kind = "InvalidToken"      -> ErrorResponse(401, "Invalid token")
      [] kind = "MissingAuthHeader" -> ErrorResponse(401, "Missing authorization")
      [] kind = "InvalidAuthHeader" -> ErrorResponse(401, "Invalid authorization header")
      [] OTHER                      -> ErrorResponse(500, "Failed to create token")

\* a byte of a header value outside visible ASCII (obs-text)
ObsByte == Ch("0xE9")

\* HeaderValue::to_str(..).ok(): None for a value with a byte that is not visible ASCII
ToStr(value) ==
    IF \E i \in 1..Len(value) : value[i] = ObsByte
    THEN [some |-> FALSE, value |-> <<>>]
    ELSE [some |-> TRUE, value |-> value]

\* request.headers().get(AUTHORIZATION).and_then(|h| h.to_str().ok())
AuthorizationHeader(request) ==
    IF ~request.has_authorization
    THEN [some |-> FALSE, value |-> <<>>]
    ELSE ToStr(request.authorization)

\* AuthUser::from_request_parts: the String of the request extensions, if any
from_request_parts(extensions) ==
    IF Len(extensions) = 0
    THEN [ok |-> FALSE, user_id |-> ""]
    ELSE [ok |-> TRUE, user_id |-> extensions[1]]

\* next.run(request): the route of a protected handler.  Its AuthUser argument is
\* extracted first; the handler body runs with that identity, or the rejection
\* of the extractor is the response.
NextRun(extensions) ==
    LET user == from_request_parts(extensions) IN
    IF ~user.ok
    THEN [ErrorResponse(401, "Not authenticated") EXCEPT !.next_ran = TRUE]
    ELSE [status |-> 200, body |-> [json |-> TRUE, error |-> ""],
          next_ran |-> TRUE, handler_ran |-> TRUE, identity |-> user.user_id]

\* the mutant: each failure answered with the response of its AuthError
auth_middleware_ErrorBodies(request, jwt_secret, t) ==
    LET auth_header == AuthorizationHeader(request) IN
    IF ~auth_header.some THEN AuthErrorIntoResponse("MissingAuthHeader") ELSE
    LET token == extract_token_from_header(auth_header.value) IN
    IF token.kind # "Ok" THEN AuthErrorIntoResponse(token.kind) ELSE
    LET claims == validate_token(token.token, jwt_secret, t) IN
    IF claims.kind # "Ok" THEN AuthErrorIntoResponse(claims.kind) ELSE
    NextRun(<<claims.claims.user_id>>)

\* the mutant: a token that fails validation is let through without an identity
\* when it is only expired
auth_middleware_ExpiredPasses(request, jwt_secret, t) ==
    LET auth_header == AuthorizationHeader(request) IN
    IF ~auth_header.some THEN Unauthorized ELSE
    LET token == extract_token_from_header(auth_header.value) IN
    IF token.kind # "Ok" THEN Unauthorized ELSE
    LET claims == validate_token(token.token, jwt_secret, t) IN
    IF claims.kind = "InvalidToken" THEN Unauthorized ELSE
    NextRun(<<claims.claims.user_id>>)

\* the mutant: a fresh String is put into the extensions instead of claims.user_id
auth_middleware_WrongInsert(request, jwt_secret, t) ==
    LET auth_header == AuthorizationHeader(request) IN
    IF ~auth_header.some THEN Unauthorized ELSE
    LET token == extract_token_from_header(auth_header.value) IN
    IF token.kind # "Ok" THEN Unauthorized ELSE
    LET claims == validate_token(token.token, jwt_secret, t) IN
    IF claims.kind # "Ok" THEN Unauthorized ELSE
    NextRun(<<"">>)

auth_middleware(request, jwt_secret, t) ==
    LET auth_header == AuthorizationHeader(request) IN
    IF ~auth_header.some THEN Unauthorized ELSE
    LET token == extract_token_from_header(auth_header.value) IN
    IF token.kind # "Ok" THEN Unauthorized ELSE
    LET claims == validate_token(token.token, jwt_secret, t) IN
    IF claims.kind # "Ok" THEN Unauthorized ELSE
    NextRun(<<claims.claims.user_id>>)

---------------------------------------------------------------------------
\* The server and its clients.

NoCall == [op |-> "none"]

Users == {"user-1", "user-2"}

\* state.jwt_secret, and a key the server does not hold
JwtSecret == "test-secret"

Secrets == {JwtSecret, "wrong-secret"}

\* the instant the server starts
StartTime == 100 * SecondsPerDay

TokenTtl == TOKEN_EXPIRATION_DAYS * SecondsPerDay

\* by how much the clock moves in one step
ClockSteps == {1, Leeway, TokenTtl}

\* texts a client can build without any key
StaticTokens ==
    { <<>>,
      <<JunkBlock("not-a-jwt")>>,
      <<JunkBlock("invalid"), Dot, JunkBlock("token"), Dot, JunkBlock("here")>>,
      <<HeaderBlock("ExpiredSignature"), Dot, JunkBlock("token"), Dot, JunkBlock("here")>> }

\* texts a client can build from a token it holds, without any key
Forgeries(tok) ==
    { [tok EXCEPT ![1] = HeaderBlock("ExpiredSignature")],
      [tok EXCEPT ![1] = HeaderBlock("HS384")],
      [tok EXCEPT ![3] = ClaimsBlock(CHOOSE u \in Users : u # tok[3].user_id, tok[3].exp)],
      [tok EXCEPT ![3] = ClaimsBlock(tok[3].user_id, tok[3].exp + TokenTtl)],
      SubSeq(tok, 1, 3) }

\* the tokens create_token has returned
Tokens == { i.token : i \in issued }

Candidates == Tokens \cup StaticTokens \cup UNION { Forgeries(tok) : tok \in Tokens }

Req(value) == [has_authorization |-> TRUE, authorization |-> value]

NoAuthorization == [has_authorization |-> FALSE, authorization |-> <<>>]

BasicPrefix == Chars(<<"B", "a", "s", "i", "c", " ">>)

Requests ==
    {NoAuthorization, Req(<<ObsByte>>)}
        \cup { Req(BearerPrefix \o tok) : tok \in Candidates }
        \cup { Req(BasicPrefix \o tok) : tok \in Tokens }
        \cup { Req(tok) : tok \in Tokens }
        \cup { Req(BearerPrefix \o BearerPrefix \o tok) : tok \in Tokens }
        \cup { Req(BearerPrefix \o <<Space, Tab>> \o tok \o <<Space, Space>>) : tok \in Tokens }

Init ==
    /\ now = StartTime
    /\ ticks = 0
    /\ issued = {}
    /\ input = <<>>
    /\ last = NoCall
    /\ StoreInit

\* Calls are made one at a time: last holds the call that has just returned,
\* until its caller has taken the result.
Return ==
    /\ last # NoCall
    /\ last' = NoCall
    /\ UNCHANGED <<now, ticks, issued, input>>
    /\ UNCHANGED store

Tick ==
    /\ last = NoCall
    /\ ticks < MaxTicks
    /\ \E d \in ClockSteps : now' = now + d
    /\ ticks' = ticks + 1
    /\ UNCHANGED <<issued, input, last>>
    /\ UNCHANGED store

CreateToken ==
    /\ last = NoCall
    /\ Cardinality(issued) < MaxTokens
    /\ \E user_id \in Users, secret \in Secrets :
          LET call == [user_id |-> user_id, secret |-> secret, at |-> now,
                       token |-> create_token(user_id, secret, now)]
          IN  /\ issued' = issued \cup {call}
              /\ last' = [op |-> "create", call |-> call]
    /\ UNCHANGED <<now, ticks, input>>
    /\ UNCHANGED store

ValidateToken ==
    /\ last = NoCall
    /\ \E token \in Candidates, secret \in Secrets :
          last' = [op |-> "validate", token |-> token, secret |-> secret,
                   at |-> now, result |-> validate_token(token, secret, now)]
    /\ UNCHANGED <<now, ticks, issued, input>>
    /\ UNCHANGED store

HandleRequest ==
    /\ last = NoCall
    /\ \E request \in Requests :
          last' = [op |-> "request", request |-> request, at |-> now,
                   response |-> auth_middleware(request, JwtSecret, now)]
    /\ UNCHANGED <<now, ticks, issued, input>>
    /\ UNCHANGED store

Next == Tick \/ CreateToken \/ ValidateToken \/ HandleRequest \/ Return

Spec == Init /\ [][Next]_vars

---------------------------------------------------------------------------
\* Properties of the tokens (Spec).

\* the expiry written into a token that create_token returned
ExpiresAt(token) == token[3].exp

\* last is a call of validate_token on the token of the create_token call i
ValidatesIssued(i) == last.op = "validate" /\ last.token = i.token

\* C1: a token from create_token(s, k), validated with the same k before its
\* expiry, is accepted, and the claims returned carry user_id = s.
C1_RoundTrip ==
    \A i \in issued :
        (ValidatesIssued(i) /\ last.secret = i.secret /\ last.at < ExpiresAt(i.token))
            => (last.result.kind = "Ok" /\ last.result.claims.user_id = i.user_id)

C1_Witness ==
    \E i \in issued :
        /\ ValidatesIssued(i)
        /\ last.secret = i.secret
        /\ i.at < last.at
        /\ last.at < ExpiresAt(i.token)
        /\ last.result.kind = "Ok"
        /\ last.result.claims.user_id = i.user_id

\* C2: a token from create_token(s, k1) validated with k2 # k1 fails with
\* InvalidToken, carrying the invalid-signature error, whether or not the
\* token is past its expiry: never claims, never TokenExpired.
C2_WrongSecret ==
    \A i \in issued :
        (ValidatesIssued(i) /\ last.secret # i.secret)
            => (/\ last.result.kind = "InvalidToken"
                /\ last.result.message = <<"InvalidSignature">>)

C2_Witness ==
    \E i \in issued :
        /\ ValidatesIssued(i)
        /\ last.secret # i.secret
        /\ last.at > ExpiresAt(i.token) + Leeway
        /\ last.result.kind = "InvalidToken"

\* C3: a token signed with the secret and validated at any instant strictly
\* after its expires_at fails with TokenExpired.
C3_ExpiredAfterExpiry ==
    \A i \in issued :
        (ValidatesIssued(i) /\ last.secret = i.secret /\ last.at > ExpiresAt(i.token))
            => last.result.kind = "TokenExpired"

\* the token has three segments, a header naming HS256, a claims object, and
\* the tag of its first two segments under the secret
Authentic(token, secret) ==
    /\ Len(token) = 5
    /\ token[2] = Dot
    /\ token[4] = Dot
    /\ token[1] = HeaderBlock("HS256")
    /\ token[3].kind = "pay"
    /\ token[5] = SignBlock(secret, SubSeq(token, 1, 3))

\* C4: validate_token answers TokenExpired only for a token whose signature
\* verifies under the secret given and whose expiry is in the past.
C4_ExpiredOnlyIfAuthentic ==
    (last.op = "validate" /\ last.result.kind = "TokenExpired")
        => (Authentic(last.token, last.secret) /\ ExpiresAt(last.token) < last.at)

\* three segments that parse: a header naming a known algorithm, a claims
\* object and a tag
WellFormed(token) ==
    /\ Len(token) = 5
    /\ token[2] = Dot
    /\ token[4] = Dot
    /\ token[1].kind = "hdr"
    /\ token[1].alg \in KnownAlgorithms
    /\ token[3].kind = "pay"
    /\ token[5].kind = "sig"

\* the failure kind of the design: malformed, invalid signature, expired
FailureClass(token, secret) ==
    IF ~WellFormed(token) THEN "Malformed"
    ELSE IF ~Authentic(token, secret) THEN "InvalidSignature"
    ELSE "TokenExpired"

\* C5: the error kind validate_token returns tells the failure kinds apart:
\* two failed validations of different failure kinds (malformed, invalid
\* signature, expired) never return the same error kind.
C5_ThreeKinds ==
    (last.op = "validate" /\ last.result.kind # "Ok") =>
        \A token \in Candidates, secret \in Secrets :
            LET other == validate_token(token, secret, last.at) IN
            (/\ other.kind # "Ok"
             /\ FailureClass(token, secret) # FailureClass(last.token, last.secret))
                => other.kind # last.result.kind

---------------------------------------------------------------------------
\* Properties of the middleware (Spec).

\* the header is present and readable, extract_token_from_header succeeds on
\* it, and validate_token succeeds on its token with the secret of the process
Accepts(request, t) ==
    /\ request.has_authorization
    /\ ToStr(request.authorization).some
    /\ extract_token_from_header(request.authorization).kind = "Ok"
    /\ validate_token(extract_token_from_header(request.authorization).token,
                      JwtSecret, t).kind = "Ok"

Rejected == last.op = "request" /\ ~Accepts(last.request, last.at)

\* the request carries Bearer and the token of the create_token call i
Presents(request, i) ==
    /\ request.has_authorization
    /\ request.authorization = BearerPrefix \o i.token

\* C6: the downstream handler is invoked only for a request the middleware
\* accepts; every other request is answered 401 and the handler never runs.
C6_HandlerOnlyIfAuthenticated ==
    last.op = "request" =>
        /\ (last.response.next_ran \/ last.response.handler_ran)
              => Accepts(last.request, last.at)
        /\ ~Accepts(last.request, last.at)
              => (/\ last.response.status = 401
                  /\ ~last.response.next_ran
                  /\ ~last.response.handler_ran)

C6_Witness ==
    /\ Rejected
    /\ \E i \in issued :
          /\ i.secret = JwtSecret
          /\ Presents(last.request, i)
          /\ last.at > ExpiresAt(i.token) + Leeway
    /\ last.response.status = 401
    /\ ~last.response.handler_ran

\* C7: the identity the handler of an accepted request observes is the
\* subject the presented token was created for with the secret of the server.
C7_IdentityIsSubject ==
    (last.op = "request" /\ last.response.handler_ran) =>
        \E i \in issued :
            /\ i.secret = JwtSecret
            /\ extract_token_from_header(last.request.authorization).token = i.token
            /\ last.response.identity = i.user_id

C7_Witness ==
    /\ last.op = "request"
    /\ last.response.handler_ran
    /\ \E i \in issued :
          /\ Presents(last.request, i)
          /\ i.user_id = "user-2"
          /\ last.response.identity = "user-2"

\* requests of each kind of failure: no header, an unreadable header, another
\* scheme, a malformed token, a forged token, and the tokens issued (rejected
\* when expired or signed with another secret)
OneOfEachKind ==
    {NoAuthorization, Req(<<ObsByte>>), Req(BasicPrefix \o <<JunkBlock("dXNlcjpwYXNz")>>)}
        \cup { Req(BearerPrefix \o tok) : tok \in StaticTokens \cup Tokens }

\* C8: every rejected request gets the same response, status 401 and the
\* same body, whatever made the middleware reject it.
C8_UniformRejection ==
    Rejected =>
        /\ last.response.status = 401
        /\ \A request \in OneOfEachKind :
              ~Accepts(request, last.at)
                  => auth_middleware(request, JwtSecret, last.at) = last.response

C8_Witness ==
    /\ Rejected
    /\ \E i \in issued :
          /\ i.secret = JwtSecret
          /\ Presents(last.request, i)
          /\ last.at > ExpiresAt(i.token) + Leeway
    /\ \E request \in OneOfEachKind :
          /\ ~request.has_authorization
          /\ auth_middleware(request, JwtSecret, last.at) = last.response
    /\ last.response = Unauthorized

\* C9: every authentication failure on a protected route is answered 401
\* with a JSON body {"error": <message>}.
C9_JsonErrorBody ==
    Rejected =>
        /\ last.response.status = 401
        /\ last.response.body.json
        /\ last.response.body.error # ""

---------------------------------------------------------------------------
\* Header values the extractor is tried on: up to MaxChunks pieces in a row.

Chunks ==
    { BearerPrefix,
      Chars(<<"B", "e", "a", "r", "e", "r">>),
      Chars(<<"B", "a", "s", "i", "c", " ">>),
      Chars(<<"a", "b", "c">>),
      <<Space>>,
      <<Tab>> }

RECURSIVE Concat(_)
Concat(ss) == IF Len(ss) = 0 THEN <<>> ELSE Head(ss) \o Concat(Tail(ss))

HeaderValues ==
    { Concat(ss) : ss \in UNION { [1..n -> Chunks] : n \in 0..MaxChunks } }

InitExtract ==
    /\ now = 0
    /\ ticks = 0
    /\ issued = {}
    /\ input \in HeaderValues
    /\ last = NoCall
    /\ StoreInit

ExtractStep ==
    /\ last = NoCall
    /\ last' = [op |-> "extract", header |-> input,
                result |-> extract_token_from_header(input)]
    /\ UNCHANGED <<now, ticks, issued, input>>
    /\ UNCHANGED store

NextExtract == ExtractStep

SpecExtract == InitExtract /\ [][NextExtract]_vars

\* Properties of the extractor (SpecExtract).

\* what str::strip_prefix leaves: the one leading prefix removed
StripPrefix(s, p) == SubSeq(s, Len(p) + 1, Len(s))

\* C10: extract_token_from_header(h) succeeds exactly when h starts with
\* "Bearer " and the rest of h after that one prefix is not empty once
\* trimmed, and then returns that trimmed rest; otherwise InvalidAuthHeader.
C10_ExtractExactly ==
    last.op = "extract" =>
        IF /\ StartsWith(last.header, BearerPrefix)
           /\ Len(Trim(StripPrefix(last.header, BearerPrefix))) > 0
        THEN last.result = ExtractOk(Trim(StripPrefix(last.header, BearerPrefix)))
        ELSE last.result = ExtractErr

---------------------------------------------------------------------------
\* Credentials (backend/src/utils.rs).
\*
\* An encoded credential is a PHC string: fields separated by '$'.  A text is
\* held here already split at '$', one element per field, so the text before
\* the first '$' is field 1.  A field is told by its lexical class (lex):
\* "empty", "ident" (an algorithm name), "version" (v=19), "params"
\* (m=..,t=..,p=..), "b64" (unpadded base64 standing for the bytes it
\* decodes to) or "text" (anything else).

Field(lex, text, password, salt) ==
    [lex |-> lex, text |-> text, password |-> password, salt |-> salt]

Empty == Field("empty", "", "", 0)

Ident(name) == Field("ident", name, "", 0)

\* Argon2::default(): Argon2id, version 0x13, Params::default()
Version == Field("version", "v=19", "", 0)

Params == Field("params", "m=19456,t=2,p=1", "", 0)

Text(t) == Field("text", t, "", 0)

NoField == Field("none", "", "", 0)

\* SaltString::generate(&mut OsRng): the base64 of the 16 bytes of the n-th
\* draw.  The generator is taken to be what it is meant to be: no two draws
\* give the same bytes.
Generate(n) == Field("b64", "salt", "", n)

Argon2Algorithms == {"argon2d", "argon2i", "argon2id"}

\* the Argon2 output for these password bytes under this salt, encoded; the
\* function is taken to be collision-free on the inputs tried
Argon2Output(alg, password, salt) == Field("b64", alg, password, salt.salt)

hash_password_FixedSalt(password, n) ==
    LET salt == Generate(1)
    IN  [hash |-> <<Empty, Ident("argon2id"), Version, Params, salt,
                    Argon2Output("argon2id", password, salt)>>,
         salt |-> salt]

\* hash_password(password), n being the draw the generator answers with
hash_password(password, n) ==
    LET salt == Generate(n)
    IN  [hash |-> <<Empty, Ident("argon2id"), Version, Params, salt,
                    Argon2Output("argon2id", password, salt)>>,
         salt |-> salt]

ParseErr == [ok |-> FALSE, algorithm |-> "", salt |-> NoField, hash |-> NoField]

\* PasswordHash::new(s): the empty first field, the algorithm, then an
\* optional version, optional parameters, an optional salt, an optional
\* hash, and nothing after them
PasswordHashNew(s) ==
    LET n == Len(s)
        iv == 3
        ip == IF iv <= n /\ s[iv].lex = "version" THEN iv + 1 ELSE iv
        is == IF ip <= n /\ s[ip].lex = "params" THEN ip + 1 ELSE ip
        ih == is + 1
    IN  IF s[1].lex # "empty" THEN ParseErr
        ELSE IF n < 2 \/ s[2].lex # "ident" THEN ParseErr
        ELSE IF is <= n /\ s[is].lex \notin {"b64", "ident"} THEN ParseErr
        ELSE IF ih <= n /\ s[ih].lex # "b64" THEN ParseErr
        ELSE IF ih < n THEN ParseErr
        ELSE [ok |-> TRUE, algorithm |-> s[2].text,
              salt |-> IF is <= n THEN s[is] ELSE NoField,
              hash |-> IF ih <= n THEN s[ih] ELSE NoField]

\* Argon2::default().verify_password(password, &parsed_hash).is_ok(): the
\* provided method of PasswordVerifier recomputes the hash when the parsed
\* credential holds a salt and a hash, and fails in every other case
Argon2VerifyIsOk(password, parsed) ==
    /\ parsed.salt # NoField
    /\ parsed.hash # NoField
    /\ parsed.algorithm \in Argon2Algorithms
    /\ parsed.hash = Argon2Output(parsed.algorithm, password, parsed.salt)

VerifyOk(value) == [kind |-> "Ok", value |-> value]

VerifyError == [kind |-> "VerifyError", value |-> FALSE]

verify_password_AnyPassword(password, hash) ==
    LET parsed_hash == PasswordHashNew(hash)
    IN  IF ~parsed_hash.ok THEN VerifyError
        ELSE VerifyOk(parsed_hash.salt # NoField /\ parsed_hash.hash # NoField)

verify_password(password, hash) ==
    LET parsed_hash == PasswordHashNew(hash)
    IN  IF ~parsed_hash.ok THEN VerifyError
        ELSE VerifyOk(Argon2VerifyIsOk(password, parsed_hash))

---------------------------------------------------------------------------
\* Hashing and verifying passwords (SpecHash).

\* the empty password, two ordinary ones, one that is not ASCII and one of
\* 1000 characters (utils.rs tests); as_bytes() tells any two of them apart
Passwords == {"", "correct_password", "wrong_password", "non-ascii", "a x 1000"}

\* the credentials hash_password has returned
Hashed == { hashes[i].hash : i \in 1..Len(hashes) }

\* texts made from a credential h by hand
Variants(h) ==
    { SubSeq(h, 1, 5),
      SubSeq(h, 1, 4),
      <<h[1], h[2], h[5], h[6]>>,
      [h EXCEPT ![2] = Ident("md5")],
      [h EXCEPT ![2] = Ident("argon2i")],
      [h EXCEPT ![1] = Text("x")],
      h \o <<Text("trailing")>> }

\* the stored-credential texts verify_password is tried on
Credentials ==
    Hashed \cup {<<Text("invalid_hash")>>, <<Empty>>}
        \cup UNION { Variants(h) : h \in Hashed }

HashPassword ==
    /\ last = NoCall
    /\ Len(hashes) < MaxHashes
    /\ \E password \in Passwords :
          LET r == hash_password(password, rng + 1)
              call == [password |-> password, hash |-> r.hash, salt |-> r.salt]
          IN  /\ hashes' = Append(hashes, call)
              /\ last' = [op |-> "hash", call |-> call]
    /\ rng' = rng + 1
    /\ UNCHANGED <<now, ticks, issued, input, verdicts, inflight, users, messages, boot>>

VerifyPassword ==
    /\ last = NoCall
    /\ \E password \in Passwords, hash \in Credentials :
          last' = [op |-> "verify", password |-> password, hash |-> hash,
                   result |-> verify_password(password, hash)]
    /\ UNCHANGED <<now, ticks, issued, input>>
    /\ UNCHANGED store

NextHash == HashPassword \/ VerifyPassword \/ Return

SpecHash == Init /\ [][NextHash]_vars

\* C11: verifying a password q against what hash_password(p) returned gives
\* Ok(true) when q = p and Ok(false) when q differs from p, for every p and q
\* tried, the empty, the non-ASCII and the 1000-character ones included.
C11_VerifyRoundTrip ==
    last.op = "verify" =>
        \A i \in 1..Len(hashes) :
            last.hash = hashes[i].hash =>
                last.result = VerifyOk(last.password = hashes[i].password)

C11_Witness ==
    /\ last.op = "verify"
    /\ \E i, j \in 1..Len(hashes) :
          /\ hashes[i].password = ""
          /\ hashes[j].password = "a x 1000"
          /\ last.hash = hashes[j].hash
          /\ last.password = "non-ascii"
          /\ last.result = VerifyOk(FALSE)

\* C12: any two calls of hash_password, also with the same password, return
\* different salts and different encoded hashes.
C12_FreshSalt ==
    \A i, j \in 1..Len(hashes) :
        i # j => /\ hashes[i].salt # hashes[j].salt
                 /\ hashes[i].hash # hashes[j].hash

C12_Witness ==
    /\ Len(hashes) >= 2
    /\ hashes[1].password = hashes[2].password
    /\ hashes[1].hash # hashes[2].hash

\* the texts that are encoded Argon2 credentials: the algorithm, a salt and a hash
ValidCredential(s) ==
    LET parsed == PasswordHashNew(s)
    IN  /\ parsed.ok
        /\ parsed.algorithm \in Argon2Algorithms
        /\ parsed.salt # NoField
        /\ parsed.hash # NoField

\* C13: for a stored credential that is no valid encoded credential,
\* verify_password fails with VerifyError for every candidate password, and
\* never answers Ok(false).
C13_MalformedIsError ==
    (last.op = "verify" /\ ~ValidCredential(last.hash)) =>
        last.result = VerifyError

---------------------------------------------------------------------------
\* The tables and their statements (backend/src/db.rs).
\*
\* A table is the set of its rows.  Timestamps are the clock readings the
\* rows were written at; to_rfc3339 of UTC instants of one width orders as
\* the instants do.  SQLite compares TEXT byte by byte, so two emails or two
\* ids are equal only when they are the same string.  sqlx opens SQLite with
\* foreign keys enforced.

\* the n-th identifier Uuid::new_v4() hands out; the generator is taken
\* never to repeat one
Uuid(n) == ToString(n)

UserRow(id, email, username, password_hash, salt, t) ==
    [id |-> id, email |-> email, username |-> username,
     password_hash |-> password_hash, salt |-> salt,
     created_at |-> t, updated_at |-> t]

MessageRow(id, user_id, content, t) ==
    [id |-> id, user_id |-> user_id, content |-> content,
     created_at |-> t, updated_at |-> t]

DbOk == "Ok"

\* what a call of db.rs leaves: its result and the two tables after it
DbResult(result, us, ms) == [result |-> result, users |-> us, messages |-> ms]

\* PRIMARY KEY (id), UNIQUE (email)
UsersConstraint(us) ==
    \A u1, u2 \in us : (u1.id = u2.id \/ u1.email = u2.email) => u1 = u2

\* PRIMARY KEY (id), FOREIGN KEY (user_id) REFERENCES users(id)
MessagesConstraint(us, ms) ==
    /\ \A m1, m2 \in ms : m1.id = m2.id => m1 = m2
    /\ \A m \in ms : \E u \in us : u.id = m.user_id

\* Option<User>: the set of the rows found, at most one
find_user_by_email(us, email) == { u \in us : u.email = email }

find_user_by_id(us, id) == { u \in us : u.id = id }

\* INSERT INTO users: the row is stored unless a constraint of the table
\* forbids it, and then the statement fails with the error of the database
insert_user(us, ms, user) ==
    IF \/ \E u \in us : u.id = user.id \/ u.email = user.email
       \/ ~UsersConstraint(us \cup {user})
    THEN DbResult("SqlxError", us, ms)
    ELSE DbResult(DbOk, us \cup {user}, ms)

create_user_Unchecked(us, ms, user) ==
    DbResult(DbOk, us \cup {user}, ms)

\* create_user: the SELECT of the check, then the INSERT
create_user(us, ms, user) ==
    IF find_user_by_email(us, user.email) # {}
    THEN DbResult("EmailAlreadyExists", us, ms)
    ELSE insert_user(us, ms, user)

\* the mutant: the rows of the user go, their messages stay
delete_user_by_email_NoCascade(us, ms, email) ==
    LET gone == { u.id : u \in find_user_by_email(us, email) }
    IN  IF gone = {} THEN DbResult("UserNotFound", us, ms)
        ELSE DbResult(DbOk, { u \in us : u.id \notin gone }, ms)

\* DELETE FROM users WHERE email = ?, with ON DELETE CASCADE on messages
delete_user_by_email(us, ms, email) ==
    LET gone == { u.id : u \in find_user_by_email(us, email) }
    IN  IF gone = {} THEN DbResult("UserNotFound", us, ms)
        ELSE DbResult(DbOk, { u \in us : u.id \notin gone },
                            { m \in ms : m.user_id \notin gone })

\* UPDATE users SET email = ?, updated_at = ? WHERE id = ?, and the test of
\* rows_affected that follows it
update_email_row(us, ms, user_id, email, t) ==
    LET updated == { IF u.id = user_id
                     THEN [u EXCEPT !.email = email, !.updated_at = t]
                     ELSE u : u \in us }
    IN  IF find_user_by_id(us, user_id) = {}
        THEN DbResult("UserNotFound", us, ms)
        ELSE IF ~UsersConstraint(updated)
        THEN DbResult("SqlxError", us, ms)
        ELSE DbResult(DbOk, updated, ms)

\* update_user_email: the SELECT of the check, then the UPDATE
update_user_email(us, ms, user_id, email, t) ==
    IF \E existing_user \in find_user_by_email(us, email) :
           existing_user.id # user_id
    THEN DbResult("EmailAlreadyExists", us, ms)
    ELSE update_email_row(us, ms, user_id, email, t)

update_user_username(us, ms, user_id, username, t) ==
    IF find_user_by_id(us, user_id) = {} THEN DbResult("UserNotFound", us, ms)
    ELSE DbResult(DbOk,
                  { IF u.id = user_id
                    THEN [u EXCEPT !.username = username, !.updated_at = t]
                    ELSE u : u \in us },
                  ms)

update_user_password(us, ms, user_id, password_hash, salt, t) ==
    IF find_user_by_id(us, user_id) = {} THEN DbResult("UserNotFound", us, ms)
    ELSE DbResult(DbOk,
                  { IF u.id = user_id
                    THEN [u EXCEPT !.password_hash = password_hash, !.salt = salt,
                                   !.updated_at = t]
                    ELSE u : u \in us },
                  ms)

\* the orders a SELECT ... ORDER BY created_at DESC can return rows in
RowsNewestFirst(rows) ==
    { seq \in [1..Cardinality(rows) -> rows] :
        /\ \A i, j \in DOMAIN seq : i # j => seq[i] # seq[j]
        /\ \A i, j \in DOMAIN seq : i < j => seq[i].created_at >= seq[j].created_at }

NoSince == [some |-> FALSE, timestamp |-> 0]

Since(t) == [some |-> TRUE, timestamp |-> t]

\* Vec<Message>: the set of the vectors the query can return
get_messages_for_user_Everyone(ms, user_id, since) ==
    RowsNewestFirst(ms)

get_messages_for_user(ms, user_id, since) ==
    RowsNewestFirst(
        IF since.some
        THEN { m \in ms : /\ m.user_id = user_id
                          /\ (m.created_at > since.timestamp
                                \/ m.updated_at > since.timestamp) }
        ELSE { m \in ms : m.user_id = user_id })

get_message_by_id(ms, id) == { m \in ms : m.id = id }

\* the mutant: INSERT OR REPLACE, the stored row of the id gives way
create_message_Replace(us, ms, message) ==
    LET kept == { m \in ms : m.id # message.id }
    IN  IF ~MessagesConstraint(us, kept \cup {message})
        THEN DbResult("SqlxError", us, ms)
        ELSE DbResult(DbOk, us, kept \cup {message})

\* INSERT INTO messages: refused when a stored row has the id already (were
\* it a row equal in every column) or no user has the user_id
create_message(us, ms, message) ==
    IF \/ get_message_by_id(ms, message.id) # {}
       \/ ~MessagesConstraint(us, ms \cup {message})
    THEN DbResult("SqlxError", us, ms)
    ELSE DbResult(DbOk, us, ms \cup {message})

update_message_AnyOwner(us, ms, id, user_id, content, t) ==
    IF get_message_by_id(ms, id) = {} THEN DbResult("MessageNotFound", us, ms)
    ELSE DbResult(DbOk, us,
                  { IF m.id = id THEN [m EXCEPT !.content = content, !.updated_at = t]
                                 ELSE m : m \in ms })

\* the mutant: the row is written anew, created_at with it
update_message_Recreated(us, ms, id, user_id, content, t) ==
    LET hit == { m \in ms : m.id = id /\ m.user_id = user_id }
    IN  IF hit = {} THEN DbResult("MessageNotFound", us, ms)
        ELSE DbResult(DbOk, us,
                      { IF m \in hit THEN MessageRow(m.id, m.user_id, content, t)
                        ELSE m : m \in ms })

update_message(us, ms, id, user_id, content, t) ==
    LET hit == { m \in ms : m.id = id /\ m.user_id = user_id }
    IN  IF hit = {} THEN DbResult("MessageNotFound", us, ms)
        ELSE DbResult(DbOk, us,
                      { IF m \in hit
                        THEN [m EXCEPT !.content = content, !.updated_at = t]
                        ELSE m : m \in ms })

delete_message(us, ms, id, user_id) ==
    LET hit == { m \in ms : m.id = id /\ m.user_id = user_id }
    IN  IF hit = {} THEN DbResult("MessageNotFound", us, ms)
        ELSE DbResult(DbOk, us, ms \ hit)

---------------------------------------------------------------------------
\* The calls of db.rs, made with arguments of the caller's choice (SpecDb).

Emails == {"test@example.com", "other@example.com"}

Contents == {"Hello, world!", "Updated"}

\* an id no row has
Nonexistent == "nonexistent"

UserIds == { u.id : u \in users }

MessageIds == { m.id : m \in messages }

Snapshot == [users |-> users, messages |-> messages]

\* the clock moves on by a second
Advance ==
    /\ last = NoCall
    /\ ticks < MaxAdvances
    /\ now' = now + 1
    /\ ticks' = ticks + 1
    /\ UNCHANGED <<issued, input, last>>
    /\ UNCHANGED store

DbFrame == UNCHANGED <<now, ticks, issued, input, hashes, verdicts, inflight, boot>>

\* create_user with a User as create_test_user of the tests builds it, under
\* a new id or under the id of a stored row; the credential, of no concern to
\* db.rs, is held as an opaque text
DbCreateUser ==
    /\ last = NoCall
    /\ rng < MaxDraws
    /\ \E email \in Emails, id \in {Uuid(rng + 1)} \cup UserIds :
          LET user == UserRow(id, email, "testuser", <<Text("hash")>>, Text("salt"), now)
              r == create_user(users, messages, user)
          IN  /\ users' = r.users
              /\ messages' = r.messages
              /\ last' = [op |-> "create_user", user |-> user,
                          before |-> Snapshot, result |-> r.result]
    /\ rng' = rng + 1
    /\ DbFrame

DbUpdateUserEmail ==
    /\ last = NoCall
    /\ \E user_id \in UserIds \cup {Nonexistent}, email \in Emails :
          LET r == update_user_email(users, messages, user_id, email, now)
          IN  /\ users' = r.users
              /\ messages' = r.messages
              /\ last' = [op |-> "update_user_email", user_id |-> user_id,
                          email |-> email, before |-> Snapshot, result |-> r.result]
    /\ UNCHANGED rng
    /\ DbFrame

DbDeleteUser ==
    /\ last = NoCall
    /\ \E email \in Emails :
          LET r == delete_user_by_email(users, messages, email)
          IN  /\ users' = r.users
              /\ messages' = r.messages
              /\ last' = [op |-> "delete_user_by_email", email |-> email,
                          before |-> Snapshot, result |-> r.result]
    /\ UNCHANGED rng
    /\ DbFrame

DbCreateMessage ==
    /\ last = NoCall
    /\ rng < MaxDraws
    /\ \E user_id \in UserIds \cup {Nonexistent}, content \in Contents,
          id \in {Uuid(rng + 1)} \cup MessageIds :
          LET message == MessageRow(id, user_id, content, now)
              r == create_message(users, messages, message)
          IN  /\ users' = r.users
              /\ messages' = r.messages
              /\ last' = [op |-> "create_message", message |-> message,
                          before |-> Snapshot, result |-> r.result]
    /\ rng' = rng + 1
    /\ DbFrame

DbUpdateMessage ==
    /\ last = NoCall
    /\ \E id \in MessageIds \cup {Nonexistent}, user_id \in UserIds \cup {Nonexistent},
          content \in Contents :
          LET r == update_message(users, messages, id, user_id, content, now)
          IN  /\ users' = r.users
              /\ messages' = r.messages
              /\ last' = [op |-> "update_message", id |-> id, user_id |-> user_id,
                          before |-> Snapshot, result |-> r.result]
    /\ UNCHANGED rng
    /\ DbFrame

DbDeleteMessage ==
    /\ last = NoCall
    /\ \E id \in MessageIds \cup {Nonexistent}, user_id \in UserIds \cup {Nonexistent} :
          LET r == delete_message(users, messages, id, user_id)
          IN  /\ users' = r.users
              /\ messages' = r.messages
              /\ last' = [op |-> "delete_message", id |-> id, user_id |-> user_id,
                          before |-> Snapshot, result |-> r.result]
    /\ UNCHANGED rng
    /\ DbFrame

DbGetMessages ==
    /\ last = NoCall
    /\ \E user_id \in UserIds \cup {Nonexistent},
          since \in {NoSince} \cup { Since(m.created_at) : m \in messages } :
          \E rows \in get_messages_for_user(messages, user_id, since) :
              last' = [op |-> "get_messages_for_user", user_id |-> user_id,
                       since |-> since, before |-> Snapshot, rows |-> rows]
    /\ UNCHANGED <<users, messages, rng>>
    /\ DbFrame

NextDb ==
    \/ Advance
    \/ DbCreateUser
    \/ DbUpdateUserEmail
    \/ DbDeleteUser
    \/ DbCreateMessage
    \/ DbUpdateMessage
    \/ DbDeleteMessage
    \/ DbGetMessages
    \/ Return

SpecDb == Init /\ [][NextDb]_vars

\* Properties of the tables (SpecDb).

\* the call that returned last left both tables as it found them
TablesUntouched ==
    /\ users = last.before.users
    /\ messages = last.before.messages

\* C19: update_message and delete_message called with a user id that is not
\* the owner of the message fail with MessageNotFound and leave the tables
\* unchanged, the same result as for an id no message has.
C19_NonOwnerNotFound ==
    last.op \in {"update_message", "delete_message"} =>
        LET owned == \E m \in last.before.messages :
                         m.id = last.id /\ m.user_id = last.user_id
        IN  ~owned => (last.result = "MessageNotFound" /\ TablesUntouched)

C19_Witness ==
    /\ last.op = "update_message"
    /\ last.user_id \in UserIds
    /\ \E m \in messages :
          /\ m.id = last.id
          /\ m.user_id # last.user_id
          /\ m.user_id \in UserIds
    /\ last.result = "MessageNotFound"
    /\ TablesUntouched

\* no two stored users share an email
UniqueEmail == \A u1, u2 \in users : u1.email = u2.email => u1 = u2

\* C20: create_user with an email a stored user has fails with
\* EmailAlreadyExists and stores nothing; after any sequence of create_user
\* and update_user_email no two stored users share an email.
C20_EmailUnique ==
    /\ UniqueEmail
    /\ (last.op = "create_user"
          /\ \E u \in last.before.users : u.email = last.user.email)
       => (last.result = "EmailAlreadyExists" /\ TablesUntouched)

C20_Witness ==
    /\ last.op = "create_user"
    /\ last.result = "EmailAlreadyExists"
    /\ last.user.id \notin UserIds
    /\ Cardinality(users) = 2
    /\ \E u \in users : u.updated_at > u.created_at
    /\ TablesUntouched

---------------------------------------------------------------------------
\* The router and the handlers (backend/src/main.rs, handlers.rs, exports.rs).

\* create_router: the route merged in without the layer, and the routes
\* under .layer(from_fn_with_state(state, auth_middleware))
PublicRoutes == {"POST /api/login"}

ProtectedRoutes ==
    { "GET /api/messages", "POST /api/messages",
      "PUT /api/messages/:id", "DELETE /api/messages/:id",
      "PUT /api/user/email", "PUT /api/user/username", "PUT /api/user/password",
      "GET /api/export/json", "GET /api/export/markdown" }

NoId == [some |-> FALSE, value |-> ""]

SomeId(id) == [some |-> TRUE, value |-> id]

\* what a request carries besides its Authorization header: the :id of the
\* path, the query and the fields of the JSON body, each empty where the
\* route has none
NoArgs ==
    [path_id |-> "", since |-> NoSince, email |-> "", password |-> "",
     new_password |-> "", content |-> "", id |-> NoId, username |-> ""]

HttpRequest(route, auth, args) == [route |-> route, auth |-> auth, args |-> args]

\* a response: the status, the error of an ErrorResponse body (empty when
\* the body is none), the handler whose body ran ("none" when none did),
\* and what a success carries
Response(status, error, handler) ==
    [status |-> status, json |-> TRUE, error |-> error, handler |-> handler,
     token |-> <<>>, user |-> {}, rows |-> <<>>]

\* the response of the layer, when the handler body did not run
Rejection(mw) ==
    [Response(mw.status, mw.body.error, "none") EXCEPT !.json = mw.body.json]

\* what serving a request leaves: the response, both tables, how many values
\* were drawn from the generator, and the calls of create_token made
Outcome(response, us, ms, draws, calls) ==
    [response |-> response, users |-> us, messages |-> ms,
     draws |-> draws, calls |-> calls]

\* User::to_public
ToPublic(user) == [id |-> user.id, email |-> user.email, username |-> user.username]

\* Message::to_response
ToResponse(message) ==
    [id |-> message.id, content |-> message.content,
     created_at |-> message.created_at, updated_at |-> message.updated_at]

ToResponses(rows) == [i \in DOMAIN rows |-> ToResponse(rows[i])]

\* str::trim().is_empty(), on the texts the requests carry
TrimIsEmpty(s) == s \in {"", "   "}

\* str::contains('@'), on the texts the requests carry
ContainsAt(s) == s \in {"test@example.com", "other@example.com", "nobody@example.com"}

\* the text of seven times the character U+00E9, two bytes each in UTF-8
SevenAccents == "U+00E9 x 7"

\* str::len(): the number of bytes, on the texts the requests carry
StrLen(s) ==
    CASE s = "short" -> 5
      [] s = "newpassword123" -> 14
      [] s = "correct_password" -> 16
      [] s = SevenAccents -> 14

login_TellsApart(args, us, ms, t) ==
    LET found == find_user_by_email(us, args.email) IN
    IF found = {}
    THEN {Outcome(Response(404, "User not found", "login"), us, ms, 0, {})}
    ELSE
    LET user == CHOOSE u \in found : TRUE
        is_valid == verify_password(args.password, user.password_hash)
    IN  IF is_valid.kind # "Ok"
        THEN {Outcome(Response(500, "Password verification error", "login"), us, ms, 0, {})}
        ELSE IF ~is_valid.value
        THEN {Outcome(Response(401, "Invalid email or password", "login"), us, ms, 0, {})}
        ELSE
        LET token == create_token(user.id, JwtSecret, t)
        IN  {Outcome([Response(200, "", "login") EXCEPT !.token = token,
                                                        !.user = {ToPublic(user)}],
                     us, ms, 0,
                     {[user_id |-> user.id, secret |-> JwtSecret, at |-> t,
                       token |-> token]})}

\* the mutant: the token is made before the password is looked at
login_Unverified(args, us, ms, t) ==
    LET found == find_user_by_email(us, args.email) IN
    IF found = {}
    THEN {Outcome(Response(401, "Invalid email or password", "login"), us, ms, 0, {})}
    ELSE
    LET user == CHOOSE u \in found : TRUE
        token == create_token(user.id, JwtSecret, t)
    IN  {Outcome([Response(200, "", "login") EXCEPT !.token = token,
                                                    !.user = {ToPublic(user)}],
                 us, ms, 0,
                 {[user_id |-> user.id, secret |-> JwtSecret, at |-> t,
                   token |-> token]})}

\* handlers::login.  (create_token cannot fail for HS256 and a byte secret.)
login(args, us, ms, t) ==
    LET found == find_user_by_email(us, args.email) IN
    IF found = {}
    THEN {Outcome(Response(401, "Invalid email or password", "login"), us, ms, 0, {})}
    ELSE
    LET user == CHOOSE u \in found : TRUE
        is_valid == verify_password(args.password, user.password_hash)
    IN  IF is_valid.kind # "Ok"
        THEN {Outcome(Response(500, "Password verification error", "login"), us, ms, 0, {})}
        ELSE IF ~is_valid.value
        THEN {Outcome(Response(401, "Invalid email or password", "login"), us, ms, 0, {})}
        ELSE
        LET token == create_token(user.id, JwtSecret, t)
        IN  {Outcome([Response(200, "", "login") EXCEPT !.token = token,
                                                        !.user = {ToPublic(user)}],
                     us, ms, 0,
                     {[user_id |-> user.id, secret |-> JwtSecret, at |-> t,
                       token |-> token]})}

get_messages_handler(user_id, args, us, ms) ==
    { Outcome([Response(200, "", "get_messages") EXCEPT !.rows = ToResponses(rows)],
              us, ms, 0, {}) :
        rows \in get_messages_for_user(ms, user_id, args.since) }

\* Message::new draws the id; Message::with_id takes the one of the client
create_message_handler(user_id, args, us, ms, t, n) ==
    IF TrimIsEmpty(args.content)
    THEN {Outcome(Response(400, "Content cannot be empty", "create_message"), us, ms, 0, {})}
    ELSE
    LET draws == IF args.id.some THEN 0 ELSE 1
        message == IF args.id.some
                   THEN MessageRow(args.id.value, user_id, args.content, t)
                   ELSE MessageRow(Uuid(n + 1), user_id, args.content, t)
        created == create_message(us, ms, message)
    IN  IF created.result # DbOk
        THEN {Outcome(Response(500, "Failed to create message", "create_message"),
                      us, ms, draws, {})}
        ELSE {Outcome([Response(201, "", "create_message")
                          EXCEPT !.rows = <<ToResponse(message)>>],
                      created.users, created.messages, draws, {})}

update_message_handler(user_id, args, us, ms, t) ==
    IF TrimIsEmpty(args.content)
    THEN {Outcome(Response(400, "Content cannot be empty", "update_message"), us, ms, 0, {})}
    ELSE
    LET updated == update_message(us, ms, args.path_id, user_id, args.content, t)
    IN  IF updated.result = "MessageNotFound"
        THEN {Outcome(Response(404, "Message not found", "update_message"), us, ms, 0, {})}
        ELSE IF updated.result # DbOk
        THEN {Outcome(Response(500, "Failed to update message", "update_message"), us, ms, 0, {})}
        ELSE {Outcome([Response(200, "", "update_message")
                          EXCEPT !.rows = ToResponses(
                              CHOOSE rows \in RowsNewestFirst(
                                  get_message_by_id(updated.messages, args.path_id)) : TRUE)],
                      updated.users, updated.messages, 0, {})}

delete_message_handler(user_id, args, us, ms) ==
    LET r == delete_message(us, ms, args.path_id, user_id)
    IN  IF r.result = "MessageNotFound"
        THEN {Outcome(Response(404, "Message not found", "delete_message"), us, ms, 0, {})}
        ELSE IF r.result # DbOk
        THEN {Outcome(Response(500, "Failed to delete message", "delete_message"), us, ms, 0, {})}
        ELSE {Outcome(Response(200, "", "delete_message"), r.users, r.messages, 0, {})}

update_email_handler(user_id, args, us, ms, t) ==
    IF ~ContainsAt(args.email)
    THEN {Outcome(Response(400, "Invalid email format", "update_email"), us, ms, 0, {})}
    ELSE
    LET r == update_user_email(us, ms, user_id, args.email, t)
    IN  IF r.result = "EmailAlreadyExists"
        THEN {Outcome(Response(409, "Email already exists", "update_email"), us, ms, 0, {})}
        ELSE IF r.result # DbOk
        THEN {Outcome(Response(500, "Failed to update email", "update_email"), us, ms, 0, {})}
        ELSE {Outcome(Response(200, "", "update_email"), r.users, r.messages, 0, {})}

update_username_handler(user_id, args, us, ms, t) ==
    IF TrimIsEmpty(args.username)
    THEN {Outcome(Response(400, "Username cannot be empty", "update_username"), us, ms, 0, {})}
    ELSE
    LET r == update_user_username(us, ms, user_id, args.username, t)
    IN  IF r.result # DbOk
        THEN {Outcome(Response(500, "Failed to update username", "update_username"), us, ms, 0, {})}
        ELSE {Outcome(Response(200, "", "update_username"), r.users, r.messages, 0, {})}

\* the new credential is what hash_password returns on the next draw
update_password_handler(user_id, args, us, ms, t, n) ==
    LET found == find_user_by_id(us, user_id) IN
    IF found = {}
    THEN {Outcome(Response(404, "User not found", "update_password"), us, ms, 0, {})}
    ELSE
    LET user == CHOOSE u \in found : TRUE
        is_valid == verify_password(args.password, user.password_hash)
    IN  IF is_valid.kind # "Ok"
        THEN {Outcome(Response(500, "Password verification error", "update_password"), us, ms, 0, {})}
        ELSE IF ~is_valid.value
        THEN {Outcome(Response(401, "Invalid current password", "update_password"), us, ms, 0, {})}
        ELSE IF StrLen(args.new_password) < 8
        THEN {Outcome(Response(400, "Password must be at least 8 characters", "update_password"),
                      us, ms, 0, {})}
        ELSE
        LET new == hash_password(args.new_password, n + 1)
            r == update_user_password(us, ms, user_id, new.hash, new.salt, t)
        IN  IF r.result # DbOk
            THEN {Outcome(Response(500, "Failed to update password", "update_password"),
                          us, ms, 1, {})}
            ELSE {Outcome(Response(200, "", "update_password"), r.users, r.messages, 1, {})}

\* exports.rs: the body is the messages of the user, newest first, as a JSON
\* array or as Markdown sections
export_json_handler(user_id, us, ms) ==
    { Outcome([Response(200, "", "export_json") EXCEPT !.rows = ToResponses(rows)],
              us, ms, 0, {}) :
        rows \in get_messages_for_user(ms, user_id, NoSince) }

export_markdown_handler(user_id, us, ms) ==
    { Outcome([Response(200, "", "export_markdown")
                  EXCEPT !.json = FALSE, !.rows = ToResponses(rows)],
              us, ms, 0, {}) :
        rows \in get_messages_for_user(ms, user_id, NoSince) }

\* the handler of a protected route, run with the identity of the request
Handler(route, user_id, args, us, ms, t, n) ==
    CASE route = "GET /api/messages" -> get_messages_handler(user_id, args, us, ms)
      [] route = "POST /api/messages" -> create_message_handler(user_id, args, us, ms, t, n)
      [] route = "PUT /api/messages/:id" -> update_message_handler(user_id, args, us, ms, t)
      [] route = "DELETE /api/messages/:id" -> delete_message_handler(user_id, args, us, ms)
      [] route = "PUT /api/user/email" -> update_email_handler(user_id, args, us, ms, t)
      [] route = "PUT /api/user/username" -> update_username_handler(user_id, args, us, ms, t)
      [] route = "PUT /api/user/password" -> update_password_handler(user_id, args, us, ms, t, n)
      [] route = "GET /api/export/json" -> export_json_handler(user_id, us, ms)
      [] route = "GET /api/export/markdown" -> export_markdown_handler(user_id, us, ms)

\* the mutant: the layer looks the subject of the token up in table users
Router_LooksUserUp(request, us, ms, t, n) ==
    IF request.route \in PublicRoutes
    THEN login(request.args, us, ms, t)
    ELSE
    LET mw == auth_middleware(request.auth, JwtSecret, t)
    IN  IF ~mw.handler_ran
        THEN {Outcome(Rejection(mw), us, ms, 0, {})}
        ELSE IF find_user_by_id(us, mw.identity) = {}
        THEN {Outcome(Rejection(Unauthorized), us, ms, 0, {})}
        ELSE Handler(request.route, mw.identity, request.args, us, ms, t, n)

\* the router: a protected route is served by the layer, which runs the
\* handler with the identity it has put into the request, or answers itself
Router(request, us, ms, t, n) ==
    IF request.route \in PublicRoutes
    THEN login(request.args, us, ms, t)
    ELSE
    LET mw == auth_middleware(request.auth, JwtSecret, t)
    IN  IF ~mw.handler_ran
        THEN {Outcome(Rejection(mw), us, ms, 0, {})}
        ELSE Handler(request.route, mw.identity, request.args, us, ms, t, n)

---------------------------------------------------------------------------
\* The server with its users, their clients and the operator (SpecHttp).

UserPasswords == {"correct_password", "wrong_password"}

\* new passwords: a long one, a short one, the one the user may have already,
\* and one of seven characters that are not ASCII
NewPasswords == {"newpassword123", "short", "correct_password", SevenAccents}

\* the tokens the clients hold, and each of them signed again by someone
\* who does not hold the secret of the server
Authorizations ==
    {NoAuthorization, Req(BearerPrefix \o <<JunkBlock("not-a-jwt")>>)}
        \cup { Req(BearerPrefix \o i.token) : i \in issued }
        \cup { Req(BearerPrefix \o create_token(i.user_id, "wrong-secret", i.at)) : i \in issued }

RouteArgs(route) ==
    CASE route = "POST /api/login" ->
            { [NoArgs EXCEPT !.email = e, !.password = p] :
                e \in Emails \cup {"nobody@example.com"}, p \in UserPasswords }
      [] route = "GET /api/messages" ->
            { [NoArgs EXCEPT !.since = s] : s \in {NoSince, Since(StartTime)} }
      [] route = "POST /api/messages" ->
            { [NoArgs EXCEPT !.content = c, !.id = i] :
                c \in {"Hello, world!", "   "}, i \in {NoId, SomeId("client-1"), SomeId("client-2")} }
      [] route = "PUT /api/messages/:id" ->
            { [NoArgs EXCEPT !.path_id = i, !.content = c] :
                i \in MessageIds \cup {Nonexistent}, c \in {"Updated", "   "} }
      [] route = "DELETE /api/messages/:id" ->
            { [NoArgs EXCEPT !.path_id = i] : i \in MessageIds \cup {Nonexistent} }
      [] route = "PUT /api/user/email" ->
            { [NoArgs EXCEPT !.email = e] : e \in Emails \cup {"invalid-email"} }
      [] route = "PUT /api/user/username" ->
            { [NoArgs EXCEPT !.username = u] : u \in {"testuser", "   "} }
      [] route = "PUT /api/user/password" ->
            { [NoArgs EXCEPT !.password = p, !.new_password = q] :
                p \in UserPasswords, q \in NewPasswords }
      [] OTHER -> {NoArgs}

HttpRequests ==
    { HttpRequest(route, NoAuthorization, args) :
        route \in PublicRoutes, args \in RouteArgs("POST /api/login") }
    \cup UNION { { HttpRequest(route, auth, args) :
                     auth \in Authorizations, args \in RouteArgs(route) } :
                 route \in ProtectedRoutes }

\* manage_users add <email> <username> <password>
AddUser ==
    /\ last = NoCall
    /\ rng + 2 <= MaxHttpDraws
    /\ \E email \in Emails, password \in UserPasswords :
          LET hashed == hash_password(password, rng + 1)
              user == UserRow(Uuid(rng + 2), email, "testuser",
                              hashed.hash, hashed.salt, now)
              r == create_user(users, messages, user)
          IN  /\ users' = r.users
              /\ messages' = r.messages
              /\ last' = [op |-> "add", user |-> user, before |-> Snapshot,
                          result |-> r.result]
    /\ rng' = rng + 2
    /\ UNCHANGED <<now, ticks, issued, input, hashes, verdicts, inflight, boot>>

\* manage_users remove <email>
RemoveUser ==
    /\ last = NoCall
    /\ \E email \in Emails :
          LET r == delete_user_by_email(users, messages, email)
          IN  /\ users' = r.users
              /\ messages' = r.messages
              /\ last' = [op |-> "remove", email |-> email, before |-> Snapshot,
                          result |-> r.result]
    /\ UNCHANGED <<now, ticks, issued, input, rng, hashes, verdicts, inflight, boot>>

\* one request served from its arrival to its response
ServeFrom(requests) ==
    /\ last = NoCall
    /\ \E request \in requests :
          \E out \in Router(request, users, messages, now, rng) :
              /\ rng + out.draws <= MaxHttpDraws
              /\ users' = out.users
              /\ messages' = out.messages
              /\ rng' = rng + out.draws
              /\ issued' = issued \cup out.calls
              /\ last' = [op |-> "http", request |-> request, at |-> now,
                          before |-> Snapshot, response |-> out.response]
    /\ UNCHANGED <<now, ticks, input, hashes, verdicts, inflight, boot>>

Serve == ServeFrom(HttpRequests)

NextHttp == AddUser \/ RemoveUser \/ Serve \/ Return

SpecHttp == Init /\ [][NextHttp]_vars

\* Properties of the server (SpecHttp).

\* the password a stored credential was computed from
CredentialPassword(user) == user.password_hash[Len(user.password_hash)].password

LoginFailed == Response(401, "Invalid email or password", "login")

\* C14: a login with an email no user has and a login with the email of a
\* user but another password than theirs get the same response: status 401
\* with the same message.
C14_LoginFailuresAlike ==
    (last.op = "http" /\ last.request.route = "POST /api/login") =>
        LET found == { u \in last.before.users : u.email = last.request.args.email }
        IN  (found = {} \/ \A u \in found :
                               CredentialPassword(u) # last.request.args.password)
                => last.response = LoginFailed

C14_Witness ==
    /\ last.op = "http"
    /\ last.request.route = "POST /api/login"
    /\ \E u, v \in users :
          /\ u.email = last.request.args.email
          /\ v.email # u.email
          /\ CredentialPassword(u) # last.request.args.password
          /\ CredentialPassword(v) = last.request.args.password
    /\ last.response = LoginFailed

\* the request carries, as "Bearer <token>", a token that login has issued
\* and whose lifetime has not passed
HoldsValidToken(request, t) ==
    \E i \in issued :
        /\ i.secret = JwtSecret
        /\ request.auth = Req(BearerPrefix \o i.token)
        /\ t <= ExpiresAt(i.token)

\* C17: every route but POST /api/login is behind the layer: a request to
\* it without a valid bearer token gets 401, no handler runs for it, its
\* response carries no stored data and both tables stay as they were; and
\* the login handler runs for a request without a token.
C17_RoutesBehindLayer ==
    last.op = "http" =>
        /\ (last.request.route # "POST /api/login"
              /\ ~HoldsValidToken(last.request, last.at))
           => /\ last.response.status = 401
              /\ last.response.handler = "none"
              /\ last.response.rows = <<>>
              /\ last.response.user = {}
              /\ TablesUntouched
        /\ (last.request.route = "POST /api/login"
              /\ ~last.request.auth.has_authorization)
           => last.response.handler = "login"

C17_Witness ==
    /\ last.op = "http"
    /\ last.request.route = "DELETE /api/messages/:id"
    /\ \E m \in messages, i \in issued :
          /\ m.id = last.request.args.path_id
          /\ m.user_id = i.user_id
          /\ last.request.auth =
                Req(BearerPrefix \o create_token(i.user_id, "wrong-secret", i.at))
    /\ last.response.status = 401
    /\ last.response.handler = "none"

---------------------------------------------------------------------------
\* One token validated again and again with one secret, while a token is
\* issued and the clock moves (SpecReplay).  input holds the token and the
\* secret once the first validation has chosen them; verdicts holds what
\* each validation of them answered, and when.

\* the one token the run is about is issued
IssueOne ==
    /\ issued = {}
    /\ CreateToken

Revalidate ==
    /\ last = NoCall
    /\ Cardinality(verdicts) < MaxVerdicts
    /\ \E token \in Candidates, secret \in Secrets :
          /\ input \in {<<>>, <<[token |-> token, secret |-> secret]>>}
          /\ input' = <<[token |-> token, secret |-> secret]>>
          /\ verdicts' = verdicts \cup
                {[at |-> now, result |-> validate_token(token, secret, now)]}
    /\ UNCHANGED <<now, ticks, issued, last, rng, hashes, inflight, users, messages, boot>>

NextReplay == Tick \/ IssueOne \/ Revalidate \/ Return

SpecReplay == Init /\ [][NextReplay]_vars

\* C15: validating the same token with the same secret again gives the same
\* result as long as the clock has not passed the expiry of the token; the
\* one change there can be is from accepted to TokenExpired, after the
\* expiry, so once a token is classified expired no later validation of it
\* succeeds.
C15_StableClassification ==
    \A v1, v2 \in verdicts :
        v1.at <= v2.at =>
            \/ v1.result = v2.result
            \/ /\ v1.result.kind = "Ok"
               /\ v2.result.kind = "TokenExpired"
               /\ v2.at > ExpiresAt(input[1].token)

C15_Witness ==
    /\ \E v1, v2 \in verdicts :
          /\ v1.at < v2.at
          /\ v1.result.kind = "Ok"
          /\ v2.result.kind = "TokenExpired"
    /\ input[1].token \in Tokens

---------------------------------------------------------------------------
\* Requests served at the same time (SpecConcurrent).  inflight[r] is the
\* r-th request: its Authorization header, where its task stands in
\* auth_middleware, the claims the task holds, the extensions of the request
\* and what came of it.  The steps of different requests interleave freely.

InFlight(auth) ==
    [auth |-> auth, pc |-> "validate", user_id |-> "", extensions |-> <<>>,
     response |-> Unauthorized]

\* the extensions request.extensions_mut() gives the task of request r:
\* those of its own request
ExtensionsOf_Shared(r) == 1

ExtensionsOf(r) == r

\* the headers of the clients: a token of a user, one signed by someone
\* else in that user's name, or none
ClientHeaders ==
    {NoAuthorization}
        \cup { Req(BearerPrefix \o create_token(u, k, StartTime)) :
                 u \in Users, k \in Secrets }

ConcurrentFrame ==
    UNCHANGED <<now, ticks, issued, input, last, rng, hashes, verdicts, users, messages, boot>>

Arrive ==
    /\ Len(inflight) < MaxInFlight
    /\ \E auth \in ClientHeaders : inflight' = Append(inflight, InFlight(auth))
    /\ ConcurrentFrame

\* auth_middleware up to the claims: header, extract_token_from_header,
\* validate_token with state.jwt_secret
Authenticate(r) ==
    /\ inflight[r].pc = "validate"
    /\ LET auth_header == AuthorizationHeader(inflight[r].auth)
           token == extract_token_from_header(auth_header.value)
           claims == validate_token(token.token, JwtSecret, now)
       IN  IF auth_header.some /\ token.kind = "Ok" /\ claims.kind = "Ok"
           THEN inflight' = [inflight EXCEPT ![r].pc = "insert",
                                             ![r].user_id = claims.claims.user_id]
           ELSE inflight' = [inflight EXCEPT ![r].pc = "done",
                                             ![r].response = Unauthorized]
    /\ ConcurrentFrame

\* request.extensions_mut().insert(claims.user_id)
Insert(r) ==
    /\ inflight[r].pc = "insert"
    /\ inflight' = [[inflight EXCEPT ![ExtensionsOf(r)].extensions = <<inflight[r].user_id>>]
                       EXCEPT ![r].pc = "next"]
    /\ ConcurrentFrame

\* next.run(request).await: the handler reads the identity of its request
RunNext(r) ==
    /\ inflight[r].pc = "next"
    /\ inflight' = [inflight EXCEPT
                       ![r].pc = "done",
                       ![r].response = NextRun(inflight[ExtensionsOf(r)].extensions)]
    /\ ConcurrentFrame

NextConcurrent ==
    \/ Arrive
    \/ \E r \in DOMAIN inflight : Authenticate(r)
    \/ \E r \in DOMAIN inflight : Insert(r)
    \/ \E r \in DOMAIN inflight : RunNext(r)

SpecConcurrent == Init /\ [][NextConcurrent]_vars

\* the users in whose name the server has signed the token a header carries
SubjectsOf(auth) ==
    { u \in Users : auth = Req(BearerPrefix \o create_token(u, JwtSecret, StartTime)) }

\* C16: with requests of several users in flight at once, each handler sees
\* the subject of the token of its own request, and the layer writes the
\* identity of a request into the extensions of that request only: the
\* extensions of a request never hold anything but the subject of its token.
C16_OwnIdentity ==
    \A r \in DOMAIN inflight :
        /\ inflight[r].response.handler_ran =>
              inflight[r].response.identity \in SubjectsOf(inflight[r].auth)
        /\ inflight[r].extensions # <<>> =>
              \E u \in SubjectsOf(inflight[r].auth) : inflight[r].extensions = <<u>>

C16_Witness ==
    /\ Len(inflight) >= 2
    /\ inflight[1].pc = "done"
    /\ inflight[2].pc = "next"
    /\ inflight[1].response.handler_ran
    /\ inflight[1].response.identity = "user-1"
    /\ inflight[2].extensions = <<"user-2">>

---------------------------------------------------------------------------
\* Properties of the account and message handlers (SpecHttp).

\* chars().count(): the number of characters of the texts the requests carry
CharCount(s) ==
    CASE s = "short" -> 5
      [] s = "newpassword123" -> 14
      [] s = "correct_password" -> 16
      [] s = SevenAccents -> 7

\* the stored users, before the last request, that a token presented with
\* the request names as its subject
Callers ==
    { u \in last.before.users :
        \E i \in issued : /\ i.secret = JwtSecret
                         /\ last.request.auth = Req(BearerPrefix \o i.token)
                         /\ u.id = i.user_id }

\* the last request reached the handler of PUT /api/user/password
PasswordChange ==
    /\ last.op = "http"
    /\ last.request.route = "PUT /api/user/password"
    /\ last.response.handler = "update_password"

\* the row a user has after the last request
RowAfter(u) == { v \in users : v.id = u.id }

\* C21: update_password replaces the stored credential only when the current
\* password supplied verifies and the new one has at least 8 characters; a
\* wrong current password gets 401 and a too short new one 400, both leaving
\* the stored hash and salt as they were; after a success the new password
\* verifies against the stored credential and the old one no longer does.
C21_PasswordReplaced ==
    PasswordChange =>
        \A u \in Callers :
            LET current == last.request.args.password
                new == last.request.args.new_password
                verifies == verify_password(current, u.password_hash) = VerifyOk(TRUE)
            IN  /\ RowAfter(u) # {u} => (verifies /\ CharCount(new) >= 8)
                /\ ~verifies => (last.response.status = 401 /\ TablesUntouched)
                /\ (verifies /\ CharCount(new) < 8)
                      => (last.response.status = 400 /\ TablesUntouched)
                /\ last.response.status = 200 =>
                      \A v \in RowAfter(u) :
                          /\ verify_password(new, v.password_hash) = VerifyOk(TRUE)
                          /\ verify_password(current, v.password_hash) = VerifyOk(FALSE)

\* C25: update_password answers 400 "Password must be at least 8 characters"
\* to every new password of fewer than 8 characters, characters outside
\* ASCII included, and accepts every new password of 8 characters or more.
C25_EightCharacters ==
    (PasswordChange /\ last.response.status \in {200, 400}) =>
        LET new == last.request.args.new_password
        IN  IF CharCount(new) < 8
            THEN last.response =
                     Response(400, "Password must be at least 8 characters",
                              "update_password")
            ELSE last.response.status = 200

---------------------------------------------------------------------------
\* Properties of the tokens issued (Spec).

\* C22: create_token sets the expiry of the token to the instant of issue
\* plus exactly 15 days, so the expiry of every fresh token is more than 14
\* days and at most 15 days after its issue.
C22_FifteenDays ==
    \A i \in issued :
        /\ ExpiresAt(i.token) = i.at + 15 * 86400
        /\ ExpiresAt(i.token) > i.at + 14 * 86400
        /\ ExpiresAt(i.token) <= i.at + 15 * 86400

C22_Witness ==
    /\ last.op = "create"
    /\ last.call \in issued
    /\ ExpiresAt(last.call.token) = now + 1296000

---------------------------------------------------------------------------
\* The start of the server (main.rs, main), one step of main at a time
\* (SpecBoot).  boot holds the environment of the process, the .env file of
\* the working directory, and what main has built so far.

NoVar == [set |-> FALSE, value |-> ""]
Var(value) == [set |-> TRUE, value |-> value]

\* the environments a process is started in, and the .env files it finds
Environments ==
    [JWT_SECRET : {NoVar, Var(""), Var("test-secret")},
     DATABASE_URL : {NoVar, Var("sqlite::memory:")}]

NoFile == [exists |-> FALSE, JWT_SECRET |-> NoVar, DATABASE_URL |-> NoVar]

DotenvFiles ==
    {NoFile} \cup [exists : {TRUE},
                   JWT_SECRET : {NoVar, Var("file-secret")},
                   DATABASE_URL : {NoVar, Var("sqlite:file.db")}]

\* dotenvy::dotenv().ok(): the variables of the file that the process has
\* not set already are set; no file, no change, and the error is dropped
dotenv(env, file) ==
    [name \in DOMAIN env |->
        IF ~env[name].set /\ file.exists THEN file[name] ELSE env[name]]

\* the mutant: a secret compiled in, used when the variable is not set
env_var_expect_OrDefault(env, name) ==
    [panicked |-> FALSE,
     value |-> IF env[name].set THEN env[name].value ELSE "default-secret"]

\* std::env::var(name).expect(..): the value, or a panic when it is not set
env_var_expect(env, name) ==
    [panicked |-> ~env[name].set, value |-> env[name].value]

\* std::env::var(name).unwrap_or_else(|_| default)
env_var_or(env, name, default) ==
    IF env[name].set THEN env[name].value ELSE default

Process(pc, started, env, database_url, jwt_secret, router, listener) ==
    [pc |-> pc, started |-> started, env |-> env, database_url |-> database_url,
     jwt_secret |-> jwt_secret, router |-> router, listener |-> listener]

InitBoot ==
    /\ now = StartTime
    /\ ticks = 0
    /\ issued = {}
    /\ input = <<>>
    /\ last = NoCall
    /\ rng = 0
    /\ hashes = <<>>
    /\ verdicts = {}
    /\ inflight = <<>>
    /\ users = {}
    /\ messages = {}
    /\ \E env \in Environments, file \in DotenvFiles :
          boot = Process("dotenv", [env |-> env, file |-> file], env, "", "",
                         FALSE, FALSE)

BootFrame ==
    UNCHANGED <<now, ticks, issued, input, last, rng, hashes, verdicts, inflight,
                users, messages>>

\* main.rs 162: the .env file is loaded
LoadDotenv ==
    /\ boot.pc = "dotenv"
    /\ boot' = [boot EXCEPT !.pc = "vars",
                            !.env = dotenv(boot.env, boot.started.file)]
    /\ BootFrame

\* main.rs 164-167: the two variables are read
ReadVars ==
    /\ boot.pc = "vars"
    /\ LET secret == env_var_expect(boot.env, "JWT_SECRET")
       IN  boot' = IF secret.panicked
                   THEN [boot EXCEPT !.pc = "panicked"]
                   ELSE [boot EXCEPT
                           !.pc = "pool",
                           !.database_url =
                               env_var_or(boot.env, "DATABASE_URL",
                                          "sqlite:dissipate.db"),
                           !.jwt_secret = secret.value]
    /\ BootFrame

\* main.rs 170: the pool is opened and the schema applied, or main returns
\* the error
InitPool ==
    /\ boot.pc = "pool"
    /\ \E ok \in BOOLEAN :
          boot' = [boot EXCEPT !.pc = IF ok THEN "router" ELSE "failed"]
    /\ BootFrame

\* main.rs 172-174: the state is built from the pool and the secret, and the
\* router from the state
CreateRouter ==
    /\ boot.pc = "router"
    /\ boot' = [boot EXCEPT !.pc = "bind", !.router = TRUE]
    /\ BootFrame

\* main.rs 179: the listener is bound, or main returns the error
Bind ==
    /\ boot.pc = "bind"
    /\ \E ok \in BOOLEAN :
          boot' = [boot EXCEPT !.pc = IF ok THEN "serve" ELSE "failed",
                               !.listener = ok]
    /\ BootFrame

\* main.rs 180: requests are served from now on
AxumServe ==
    /\ boot.pc = "serve"
    /\ boot' = [boot EXCEPT !.pc = "serving"]
    /\ BootFrame

NextBoot == LoadDotenv \/ ReadVars \/ InitPool \/ CreateRouter \/ Bind \/ AxumServe

SpecBoot == InitBoot /\ [][NextBoot]_vars

\* the secret the process was started with: that of its environment or,
\* when the environment has none, that of the .env file
Configured(started) ==
    IF started.env.JWT_SECRET.set THEN started.env.JWT_SECRET
    ELSE IF started.file.exists THEN started.file.JWT_SECRET
    ELSE NoVar

\* C23: the server never starts serving when the JWT secret is not
\* configured: with JWT_SECRET unset the start fails before the router is
\* built or the listener bound, and the secret the server runs with is
\* always the configured one, never one compiled in.
C23_NoSecretNoServer ==
    LET secret == Configured(boot.started)
    IN  /\ ~secret.set =>
              /\ boot.pc \in {"dotenv", "vars", "panicked"}
              /\ ~boot.router
              /\ ~boot.listener
        /\ (boot.router \/ boot.listener \/ boot.pc \in {"serve", "serving"}) =>
              /\ secret.set
              /\ boot.jwt_secret = secret.value

C23_Witness ==
    /\ boot.pc = "panicked"
    /\ ~boot.started.env.JWT_SECRET.set
    /\ boot.started.file.exists
    /\ ~boot.started.file.JWT_SECRET.set
    /\ boot.env.DATABASE_URL.set
    /\ ~boot.router
    /\ ~boot.listener

---------------------------------------------------------------------------
\* login over users stored by manage_users (hashed credentials) and by
\* db::create_user called directly (any text as credential), with a pool
\* that answers or fails (SpecLogin).

\* handlers::login with the pool it is given: find_user_by_email fails when
\* the pool does (handlers.rs 78-85), and the handler goes on when it answers
login_with_pool(healthy, args, us, ms, t) ==
    IF ~healthy
    THEN {Outcome(Response(500, "Database error", "login"), us, ms, 0, {})}
    ELSE login(args, us, ms, t)

LoginCall ==
    /\ last = NoCall
    /\ \E healthy \in BOOLEAN, args \in RouteArgs("POST /api/login") :
          \E out \in login_with_pool(healthy, args, users, messages, now) :
              /\ issued' = issued \cup out.calls
              /\ last' = [op |-> "login", healthy |-> healthy, args |-> args,
                          at |-> now, before |-> Snapshot, was_issued |-> issued,
                          response |-> out.response, calls |-> out.calls]
    /\ UNCHANGED <<now, ticks, input>>
    /\ UNCHANGED store

NextLogin == AddUser \/ DbCreateUser \/ LoginCall \/ Return

SpecLogin == Init /\ [][NextLogin]_vars

\* the users stored under the email submitted whose stored credential the
\* password submitted verifies against
Verified ==
    { u \in last.before.users :
        /\ u.email = last.args.email
        /\ verify_password(last.args.password, u.password_hash) = VerifyOk(TRUE) }

\* C24: login issues a token only after verify_password has returned true
\* for the credential stored under the email submitted, and the subject of
\* the token is the id of that user; on every other path (email unknown,
\* password wrong, stored credential unparsable, database error) no token is
\* made; the response of a success carries nothing but the token and the
\* id, email and username of the user.
C24_TokenOnlyAfterVerify ==
    last.op = "login" =>
        IF last.healthy /\ Verified # {}
        THEN \E u \in Verified :
                /\ last.response.status = 200
                /\ last.calls = {[user_id |-> u.id, secret |-> JwtSecret,
                                  at |-> last.at, token |-> last.response.token]}
                /\ LET checked == validate_token(last.response.token, JwtSecret, last.at)
                   IN  checked.kind = "Ok" /\ checked.claims.user_id = u.id
                /\ last.response.user =
                      {[id |-> u.id, email |-> u.email, username |-> u.username]}
                /\ last.response.rows = <<>>
        ELSE /\ last.response.status # 200
             /\ last.calls = {}
             /\ issued = last.was_issued
             /\ last.response.token = <<>>
             /\ last.response.user = {}

C24_Witness ==
    /\ last.op = "login"
    /\ last.response.status = 200
    /\ last.calls # {}
    /\ \E u, v \in last.before.users :
          /\ u # v
          /\ u.email = last.args.email
          /\ <<>> # last.response.token
          /\ last.response.user = {ToPublic(u)}

---------------------------------------------------------------------------
\* Properties of the layer over the stored data (SpecHttp).

\* the handler a route is served by
HandlerOf(route) ==
    CASE route = "GET /api/messages" -> "get_messages"
      [] route = "POST /api/messages" -> "create_message"
      [] route = "PUT /api/messages/:id" -> "update_message"
      [] route = "DELETE /api/messages/:id" -> "delete_message"
      [] route = "PUT /api/user/email" -> "update_email"
      [] route = "PUT /api/user/username" -> "update_username"
      [] route = "PUT /api/user/password" -> "update_password"
      [] route = "GET /api/export/json" -> "export_json"
      [] route = "GET /api/export/markdown" -> "export_markdown"

\* C26: whether the layer accepts a request depends on the token, the secret
\* of the process and the time only, never on the stored data: a token
\* issued before its user changed password or was deleted is accepted as
\* long as it has not expired, and no operation revokes a token.
C26_NoRevocation ==
    (last.op = "http" /\ last.request.route \in ProtectedRoutes
        /\ HoldsValidToken(last.request, last.at)) =>
        last.response.handler = HandlerOf(last.request.route)

C26_Witness ==
    /\ last.op = "http"
    /\ last.request.route = "GET /api/messages"
    /\ last.response.handler = "get_messages"
    /\ last.response.status = 200
    /\ \E i \in issued :
          /\ last.request.auth = Req(BearerPrefix \o i.token)
          /\ \A u \in last.before.users : u.id # i.user_id

---------------------------------------------------------------------------
\* Calls of create_user and update_user_email on one pool, each a SELECT
\* and then a statement that writes, with the steps of different calls
\* interleaved (SpecRace).  inflight holds the calls begun and not yet
\* returned.

DbCall(op, user_id, email) ==
    [op |-> op, user_id |-> user_id, email |-> email, pc |-> "select",
     result |-> ""]

RaceFrame ==
    UNCHANGED <<now, ticks, issued, input, last, hashes, verdicts, boot>>

\* create_user is called with a new User
BeginCreateUser ==
    /\ Len(inflight) < MaxInFlight
    /\ rng < MaxDraws
    /\ \E email \in Emails :
          inflight' = Append(inflight, DbCall("create_user", Uuid(rng + 1), email))
    /\ rng' = rng + 1
    /\ UNCHANGED <<users, messages>>
    /\ RaceFrame

\* update_user_email is called for a stored user
BeginUpdateEmail ==
    /\ Len(inflight) < MaxInFlight
    /\ \E u \in users, email \in Emails :
          inflight' = Append(inflight, DbCall("update_user_email", u.id, email))
    /\ UNCHANGED <<rng, users, messages>>
    /\ RaceFrame

\* the check: find_user_by_email, and the return it leads to
SelectByEmail(k) ==
    /\ inflight[k].pc = "select"
    /\ LET call == inflight[k]
           found == find_user_by_email(users, call.email)
           taken == IF call.op = "create_user" THEN found # {}
                    ELSE \E existing_user \in found : existing_user.id # call.user_id
       IN  inflight' = [inflight EXCEPT ![k] =
                          IF taken
                          THEN [call EXCEPT !.pc = "done", !.result = "EmailAlreadyExists"]
                          ELSE [call EXCEPT !.pc = "write"]]
    /\ UNCHANGED <<rng, users, messages>>
    /\ RaceFrame

\* the INSERT of create_user, the UPDATE of update_user_email
WriteRow(k) ==
    /\ inflight[k].pc = "write"
    /\ LET call == inflight[k]
           r == IF call.op = "create_user"
                THEN insert_user(users, messages,
                                 UserRow(call.user_id, call.email, "testuser",
                                         <<Text("hash")>>, Text("salt"), now))
                ELSE update_email_row(users, messages, call.user_id, call.email, now)
       IN  /\ users' = r.users
           /\ messages' = r.messages
           /\ inflight' = [inflight EXCEPT ![k] =
                             [call EXCEPT !.pc = "done", !.result = r.result]]
    /\ UNCHANGED rng
    /\ RaceFrame

\* the caller has its result
ReturnCall(k) ==
    /\ inflight[k].pc = "done"
    /\ inflight' = SubSeq(inflight, 1, k - 1) \o SubSeq(inflight, k + 1, Len(inflight))
    /\ UNCHANGED <<rng, users, messages>>
    /\ RaceFrame

NextRace ==
    \/ BeginCreateUser
    \/ BeginUpdateEmail
    \/ \E k \in DOMAIN inflight : SelectByEmail(k)
    \/ \E k \in DOMAIN inflight : WriteRow(k)
    \/ \E k \in DOMAIN inflight : ReturnCall(k)

SpecRace == Init /\ [][NextRace]_vars

\* C27: under any interleaving of two concurrent calls of create_user (or of
\* create_user and update_user_email) for the same email, at most one of
\* them stores the email, and the one that loses fails with
\* EmailAlreadyExists, not with a generic database error.
C27_LoserGetsEmailAlreadyExists ==
    /\ UniqueEmail
    /\ \A k \in DOMAIN inflight :
          inflight[k].pc = "done" =>
              inflight[k].result \in {DbOk, "EmailAlreadyExists", "UserNotFound"}

---------------------------------------------------------------------------
\* Properties of the messages (SpecHttp).

\* the last request reached the handler of POST /api/messages
MessagePosted ==
    /\ last.op = "http"
    /\ last.request.route = "POST /api/messages"
    /\ last.response.handler = "create_message"

\* C28: create_message with an id from the client that a stored message
\* has already, of the same owner or of another, fails and leaves the owner,
\* the content and the timestamps of the stored message as they were; in
\* every reachable state no two messages, of whatever users, share an id.
C28_MessageIdUnique ==
    /\ \A m1, m2 \in messages : m1.id = m2.id => m1 = m2
    /\ (MessagePosted /\ last.request.args.id.some
          /\ \E m \in last.before.messages : m.id = last.request.args.id.value)
       => /\ last.response.status \in {400, 500}
          /\ last.response.rows = <<>>
          /\ TablesUntouched

C28_Witness ==
    /\ MessagePosted
    /\ last.response.status = 500
    /\ \E m \in messages, u \in Callers :
          /\ m.id = last.request.args.id.value
          /\ m.user_id # u.id

\* C29: in every reachable state the user_id of each stored message is the
\* id of a stored user: delete_user_by_email removes all the messages of the
\* user with the user, and no message can be created, through a token that
\* is still valid, for a user who has been deleted.
C29_MessagesHaveOwners ==
    /\ \A m \in messages : \E u \in users : u.id = m.user_id
    /\ (last.op = "remove" /\ last.result = DbOk) =>
          LET gone == { u.id : u \in { v \in last.before.users : v.email = last.email } }
          IN  /\ users = { u \in last.before.users : u.id \notin gone }
              /\ messages = { m \in last.before.messages : m.user_id \notin gone }
    /\ (MessagePosted /\ Callers = {}) =>
          /\ last.response.status \in {400, 500}
          /\ TablesUntouched

C29_Witness ==
    /\ last.op = "remove"
    /\ last.result = DbOk
    /\ \E m1, m2 \in last.before.messages :
          /\ m1.user_id # m2.user_id
          /\ m1 \in messages
          /\ m2 \notin messages

---------------------------------------------------------------------------
\* Messages written and edited while the clock moves (SpecEdit).

\* the requests to log in with the right password and, from clients that
\* hold a token of the server, to write messages under an id of the client
\* and to edit them
MessageRequests ==
    { HttpRequest("POST /api/login", NoAuthorization, args) :
        args \in { a \in RouteArgs("POST /api/login") : a.password = "correct_password" } }
    \cup { HttpRequest("POST /api/messages", Req(BearerPrefix \o i.token), args) :
             i \in issued, args \in { a \in RouteArgs("POST /api/messages") : a.id.some } }
    \cup { HttpRequest("PUT /api/messages/:id", Req(BearerPrefix \o i.token), args) :
             i \in issued, args \in RouteArgs("PUT /api/messages/:id") }

ServeMessages == ServeFrom(MessageRequests)

NextEdit == AddUser \/ Advance \/ ServeMessages \/ Return

SpecEdit == Init /\ [][NextEdit]_vars

\* the last request reached the handler of PUT /api/messages/:id
MessagePut ==
    /\ last.op = "http"
    /\ last.request.route = "PUT /api/messages/:id"
    /\ last.response.handler = "update_message"

\* C30: a successful update_message changes the content and updated_at of
\* the message it names and nothing else: id, user_id and created_at of that
\* message stay, every other message stays, and the message returned is the
\* stored message after the update; content that is empty or only
\* whitespace is answered 400 by the handler and changes nothing, and the
\* same holds for create_message, which then stores no message.
C30_UpdateTouchesContentOnly ==
    /\ (MessagePut /\ last.response.status = 200) =>
          \E old \in last.before.messages :
              LET new == [old EXCEPT !.content = last.request.args.content,
                                     !.updated_at = last.at]
              IN  /\ old.id = last.request.args.path_id
                  /\ messages = (last.before.messages \ {old}) \cup {new}
                  /\ users = last.before.users
                  /\ last.response.rows = <<ToResponse(new)>>
    /\ ((MessagePut \/ MessagePosted) /\ TrimIsEmpty(last.request.args.content)) =>
          /\ last.response.status = 400
          /\ TablesUntouched

C30_Witness ==
    /\ MessagePut
    /\ last.response.status = 200
    /\ \E m1, m2 \in messages :
          /\ m1.id = last.request.args.path_id
          /\ m1.updated_at > m1.created_at
          /\ m1.content # "Hello, world!"
          /\ m2.id # m1.id

====
